---- MODULE Spec2Model ----
(***************************************************************************)
(* Model of app.py: the Streamlit script that extracts the text of an      *)
(* uploaded PDF, splits it with RecursiveCharacterTextSplitter, translates *)
(* the chunks one after the other with translate_text and stores the       *)
(* joined result in st.session_state.translated_text.                      *)
(*                                                                         *)
(* Strings are sequences of one-character strings.  The slider ranges      *)
(* (chunk size 500..5000, overlap 0..500) are scaled down so that texts of *)
(* a few characters produce several chunks; the scaling keeps what the     *)
(* source fixes: the largest overlap equals the smallest chunk size.       *)
(***************************************************************************)
EXTENDS Integers, Sequences, FiniteSets, TLC

\* ---------------------------------------------------------------- bounds
\* Smallest and largest chunk size of the (scaled) chunk-size slider.
ChunkSizeMin == 2
ChunkSizeMax == 3
\* Longest text extracted from an uploaded file (a file has up to two pages).
MaxTextLen == 4
\* Longest text the pure splitter is applied to under SpecSplit.
MaxSplitLen == 6
\* Number of translation runs (button clicks) of one session.
MaxRuns == 2

\* ------------------------------------------------------------- alphabet
\* Python's None, where a text may be absent: distinct from every text
None == <<"None">>
Whitespace == {" ", "\n"}
\* the characters of the texts: a letter and the whitespace the separators use
Chars == {"a"} \cup Whitespace

RECURSIVE TextsOver(_, _)
\* the texts of at most n characters of cs
TextsOver(cs, n) ==
    IF n = 0 THEN {<<>>}
    ELSE LET shorter == TextsOver(cs, n - 1)
         IN  shorter \cup {Append(t, c) : t \in {s \in shorter : Len(s) = n - 1}, c \in cs}

\* ------------------------------------------------ string helper functions
RECURSIVE Join(_)
\* "".join(parts)
Join(parts) ==
    IF parts = <<>> THEN <<>> ELSE Head(parts) \o Join(Tail(parts))

RECURSIVE LeadingWs(_)
LeadingWs(t) ==
    IF t = <<>> \/ Head(t) \notin Whitespace THEN 0 ELSE 1 + LeadingWs(Tail(t))

RECURSIVE TrailingWs(_)
TrailingWs(t) ==
    IF t = <<>> \/ t[Len(t)] \notin Whitespace THEN 0
    ELSE 1 + TrailingWs(SubSeq(t, 1, Len(t) - 1))

\* str.strip(), on a piece of text that remembers where it starts in the
\* text that was split ("at", 0-based; bookkeeping only, the library keeps txt).
Strip(p) ==
    LET lead == LeadingWs(p.txt)
    IN  IF lead = Len(p.txt) THEN [txt |-> <<>>, at |-> p.at + lead]
        ELSE [txt |-> SubSeq(p.txt, lead + 1, Len(p.txt) - TrailingWs(p.txt)),
              at  |-> p.at + lead]

\* ---------------------------------------------------------- the splitter
\* What text_splitter.split_text does (app.py:118-123): the algorithm of
\* langchain's RecursiveCharacterTextSplitter with the defaults the script
\* leaves in place (separators "\n\n", "\n", " ", ""; keep_separator=True;
\* strip_whitespace=True).
RECURSIVE NextMatch(_, _, _)
\* re.search: 1-based position of the first occurrence of sep at or after i, 0 if none.
NextMatch(t, sep, i) ==
    IF i + Len(sep) - 1 > Len(t) THEN 0
    ELSE IF SubSeq(t, i, i + Len(sep) - 1) = sep THEN i
    ELSE NextMatch(t, sep, i + 1)

RECURSIVE ReSplit(_, _)
\* re.split(f"({separator})", text): [t0, sep, t1, sep, ..., tk]
ReSplit(t, sep) ==
    LET m == NextMatch(t, sep, 1)
    IN  IF m = 0 THEN <<t>>
        ELSE <<SubSeq(t, 1, m - 1), sep>> \o ReSplit(SubSeq(t, m + Len(sep), Len(t)), sep)

RECURSIVE Annotate(_, _)
\* The strings of a split of a text that starts at base, each with its own start.
Annotate(strs, base) ==
    IF strs = <<>> THEN <<>>
    ELSE <<[txt |-> Head(strs), at |-> base]>> \o Annotate(Tail(strs), base + Len(Head(strs)))

NonEmpty(p) == p.txt # <<>>

\* _split_text_with_regex(text, separator, keep_separator=True)
SplitTextWithRegex(p, sep) ==
    LET strs ==
          IF sep # <<>>
          THEN LET s == ReSplit(p.txt, sep)
                   pairs == [k \in 1..((Len(s) - 1) \div 2) |-> s[2 * k] \o s[2 * k + 1]]
                   extra == IF Len(s) % 2 = 0 THEN <<s[Len(s)]>> ELSE <<>>
               IN  <<s[1]>> \o pairs \o extra
          ELSE [k \in 1..Len(p.txt) |-> <<p.txt[k]>>]
    IN  SelectSeq(Annotate(strs, p.at), NonEmpty)

\* TextSplitter._join_docs(docs, separator="") : the stripped join, or None
JoinDocs(docs) ==
    LET text == Strip([txt |-> Join([k \in 1..Len(docs) |-> docs[k].txt]), at |-> docs[1].at])
    IN  IF text.txt = <<>> THEN <<>> ELSE <<text>>

RECURSIVE PopWhile(_, _, _, _, _)
\* the while loop of _merge_splits: drop pieces from the front of current_doc
PopWhile(cur, total, len, size, overlap) ==
    IF total > overlap \/ (total + len > size /\ total > 0)
    THEN PopWhile(Tail(cur), total - Len(Head(cur).txt), len, size, overlap)
    ELSE [cur |-> cur, total |-> total]

RECURSIVE MergeFrom(_, _, _, _, _, _, _)
\* the for loop of _merge_splits, from split k on (separator is "", of length 0)
MergeFrom(splits, k, docs, cur, total, size, overlap) ==
    IF k > Len(splits)
    THEN docs \o (IF cur = <<>> THEN <<>> ELSE JoinDocs(cur))
    ELSE LET d == splits[k]
             len == Len(d.txt)
             full == total + len > size /\ Len(cur) > 0
             docs1 == IF full THEN docs \o JoinDocs(cur) ELSE docs
             kept == IF full THEN PopWhile(cur, total, len, size, overlap)
                     ELSE [cur |-> cur, total |-> total]
         IN  MergeFrom(splits, k + 1, docs1, Append(kept.cur, d), kept.total + len, size, overlap)

\* TextSplitter._merge_splits(splits, separator="")
MergeSplits(splits, size, overlap) == MergeFrom(splits, 1, <<>>, <<>>, 0, size, overlap)

\* RecursiveCharacterTextSplitter's default separators
Separators == << <<"\n", "\n">>, <<"\n">>, <<" ">>, <<>> >>

RECURSIVE PickSeparator(_, _, _)
\* index of the first separator that is "" or occurs in the text
PickSeparator(t, seps, i) ==
    IF i >= Len(seps) THEN Len(seps)
    ELSE IF seps[i] = <<>> \/ NextMatch(t, seps[i], 1) # 0 THEN i
    ELSE PickSeparator(t, seps, i + 1)

RECURSIVE SplitText(_, _, _, _)
RECURSIVE SplitLoop(_, _, _, _, _, _, _)
\* the for loop of _split_text over splits, from split k on
SplitLoop(splits, k, final, good, newSeps, size, overlap) ==
    IF k > Len(splits)
    THEN final \o (IF good # <<>> THEN MergeSplits(good, size, overlap) ELSE <<>>)
    ELSE LET s == splits[k]
         IN  IF Len(s.txt) < size
             THEN SplitLoop(splits, k + 1, final, Append(good, s), newSeps, size, overlap)
             ELSE LET merged == IF good # <<>> THEN MergeSplits(good, size, overlap) ELSE <<>>
                      deeper == IF newSeps = <<>> THEN <<s>>
                                ELSE SplitText(s, newSeps, size, overlap)
                  IN  SplitLoop(splits, k + 1, final \o merged \o deeper, <<>>,
                                newSeps, size, overlap)

\* RecursiveCharacterTextSplitter._split_text(text, separators)
SplitText(p, seps, size, overlap) ==
    LET i == PickSeparator(p.txt, seps, 1)
        separator == seps[i]
        newSeps == IF separator = <<>> THEN <<>> ELSE SubSeq(seps, i + 1, Len(seps))
    IN  SplitLoop(SplitTextWithRegex(p, separator), 1, <<>>, <<>>, newSeps, size, overlap)

\* text_splitter.split_text(original_text): the chunks, each with its start in the text
SplitPieces(text, size, overlap) == SplitText([txt |-> text, at |-> 0], Separators, size, overlap)

\* the chunk strings the script iterates over
ChunkTexts(pieces) == [k \in 1..Len(pieces) |-> pieces[k].txt]

\* ------------------------------------------------------------ the sliders
\* st.slider("チャンクサイズ", 500, 5000, 1500, 100), scaled
ChunkSizes == ChunkSizeMin..ChunkSizeMax
\* st.slider("オーバーラップ", 0, 500, 200, 50), scaled: its maximum is the
\* minimum of the chunk-size slider (both are 500 in the source)
Overlaps == 0..ChunkSizeMin

\* RecursiveCharacterTextSplitter(chunk_size, chunk_overlap, length_function=len):
\* the constructor raises ValueError only for chunk_overlap > chunk_size
SplitterRejects(size, overlap) == overlap > size

\* ------------------------------------------------------------ extraction
\* An uploaded file: unreadable (PdfReader raises), or a sequence of pages whose
\* extract_text() is None or a text.
PageTexts == {None} \cup TextsOver(Chars, MaxTextLen)
PageLen(pt) == IF pt = None THEN 0 ELSE Len(pt)
Files ==
    {[ok |-> FALSE, pages |-> <<>>]} \cup
    {[ok |-> TRUE, pages |-> ps] :
        ps \in {<<>>} \cup {<<p>> : p \in PageTexts}
               \cup {pq \in PageTexts \X PageTexts :
                        PageLen(pq[1]) + PageLen(pq[2]) <= MaxTextLen}}

RECURSIVE PagesText(_)
\* for page in reader.pages: if page_text: text += page_text
PagesText(pages) ==
    IF pages = <<>> THEN <<>>
    ELSE (IF Head(pages) = None \/ Head(pages) = <<>> THEN <<>> ELSE Head(pages))
         \o PagesText(Tail(pages))

\* extract_text_from_pdf(uploaded_file): the text, or None after st.error
ExtractTextFromPdf(file) == IF file.ok THEN PagesText(file.pages) ELSE None

\* the guard "if original_text:"
TextPresent(t) == t # None /\ t # <<>>

\* ------------------------------------------------------------ translation
\* What the remote call does: returns response.text or raises.
Responses == {<<"j">>, <<"k">>}
ErrorTexts == {<<"e">>}
Outcomes == {[raised |-> FALSE, val |-> r] : r \in Responses}
            \cup {[raised |-> TRUE, val |-> e] : e \in ErrorTexts}
\* "翻訳中にエラーが発生しました: "
ErrorPrefix == <<"!">>

TranslateTextPropagates(outcome) == [escaped |-> outcome.raised, val |-> outcome.val]
\* translate_text(text_chunk, api_key, model_name): the try/except returns the
\* response text or the failure description; nothing escapes
TranslateText(outcome) ==
    [escaped |-> FALSE,
     val |-> IF outcome.raised THEN ErrorPrefix \o outcome.val ELSE outcome.val]

AssembleWithSeparator(parts) ==
    IF parts = <<>> THEN <<>>
    ELSE Head(parts) \o Join([k \in 1..(Len(parts) - 1) |-> <<"\n">> \o parts[k + 1]])
\* "".join(translated_chunks)
AssembleText(parts) == Join(parts)

VARIABLES
    pc,                 \* where the script is
    translated_text,    \* st.session_state.translated_text
    original_text,      \* st.session_state.original_text
    chunk_size,         \* value of the chunk-size slider in this run
    chunk_overlap,      \* value of the overlap slider in this run
    chunks,             \* text_splitter.split_text(original_text)
    translated_chunks,  \* the list the loop appends to
    i,                  \* enumerate index of the chunk being processed
    progress_bar,       \* what the progress bar shows: <<completed, total>>, <<>> without a bar
    realtime_display,   \* text of the realtime text area, None while empty
    notice,             \* st.error of the extraction is on screen
    completed,          \* st.success("翻訳が完了しました") is on screen
    log,                \* history of this run: calls, resolutions, progress, sleeps
    cancel_mark,        \* the numbers of calls and resolutions when the caller
                        \* signalled cancellation of the run in progress, else NoCancel
    had_result,         \* translated_text was non-empty when this run started
    runs                \* button clicks so far

vars == <<pc, translated_text, original_text, chunk_size, chunk_overlap, chunks,
          translated_chunks, i, progress_bar, realtime_display, notice, completed,
          log, cancel_mark, had_result, runs>>

\* ------------------------------------------------------------ log helpers
Event(kind, idx, val) == [kind |-> kind, idx |-> idx, val |-> val]
IsCall(e) == e.kind = "call"
IsResolve(e) == e.kind = "resolve"
IsProgress(e) == e.kind = "progress"
IsSleep(e) == e.kind = "sleep"
Calls == SelectSeq(log, IsCall)
Resolves == SelectSeq(log, IsResolve)
ProgressEvents == SelectSeq(log, IsProgress)
Sleeps == SelectSeq(log, IsSleep)
TotalChunks == Len(chunks)
NoCancel == [calls |-> -1, resolved |-> -1]

\* ---------------------------------------------------------------- script
Init ==
    /\ pc = "idle"
    /\ translated_text = <<>>
    /\ original_text = <<>>
    /\ chunk_size \in ChunkSizes
    /\ chunk_overlap \in Overlaps
    /\ chunks = <<>>
    /\ translated_chunks = <<>>
    /\ i = 0
    /\ progress_bar = <<>>
    /\ realtime_display = None
    /\ notice = FALSE
    /\ completed = FALSE
    /\ log = <<>>
    /\ cancel_mark = NoCancel
    /\ had_result = FALSE
    /\ runs = 0

SessionResetKeeps == [translated_text |-> translated_text, original_text |-> <<>>]
\* st.session_state.translated_text = ""; st.session_state.original_text = ""
SessionReset == [translated_text |-> <<>>, original_text |-> <<>>]

\* The button is clicked with a file uploaded: the script runs again with the
\* slider values of the moment and resets the session state.
Click ==
    /\ pc = "idle"
    /\ runs < MaxRuns
    /\ pc' = "extract"
    /\ chunk_size' \in ChunkSizes
    /\ chunk_overlap' \in Overlaps
    /\ translated_text' = SessionReset.translated_text
    /\ original_text' = SessionReset.original_text
    /\ had_result' = (translated_text # <<>>)
    /\ chunks' = <<>>
    /\ translated_chunks' = <<>>
    /\ i' = 0
    /\ progress_bar' = <<>>
    /\ realtime_display' = None
    /\ notice' = FALSE
    /\ completed' = FALSE
    /\ log' = <<>>
    /\ cancel_mark' = NoCancel
    /\ runs' = runs + 1

\* Extraction, the guard "if original_text:", the splitter and the set-up of
\* the loop.
ExtractAndSplit ==
    /\ pc = "extract"
    /\ \E file \in Files :
          LET text == ExtractTextFromPdf(file)
              present == TextPresent(text)
              rejected == present /\ SplitterRejects(chunk_size, chunk_overlap)
              started == present /\ ~rejected
          IN  /\ original_text' = text
              /\ notice' = (text = None)
              /\ chunks' = IF started
                           THEN ChunkTexts(SplitPieces(text, chunk_size, chunk_overlap))
                           ELSE <<>>
              /\ pc' = IF started THEN "loop" ELSE IF rejected THEN "error" ELSE "idle"
              /\ progress_bar' = IF started THEN <<0, TotalChunks'>> ELSE <<>>
    /\ UNCHANGED <<translated_text, chunk_size, chunk_overlap, translated_chunks, i,
                   realtime_display, completed, log, cancel_mark, had_result, runs>>

\* for i, chunk in enumerate(chunks): translate_text(chunk, ...) is called
TranslateCall ==
    /\ pc = "loop"
    /\ i < TotalChunks
    /\ pc' = "inflight"
    /\ log' = Append(log, Event("call", i, chunks[i + 1]))
    /\ UNCHANGED <<translated_text, original_text, chunk_size, chunk_overlap, chunks,
                   translated_chunks, i, progress_bar, realtime_display, notice,
                   completed, cancel_mark, had_result, runs>>

\* the remote call ends; translated_chunks.append(translated_chunk)
TranslateReturn ==
    /\ pc = "inflight"
    /\ \E outcome \in Outcomes :
          LET r == TranslateText(outcome)
          IN  IF r.escaped
              THEN /\ pc' = "error"
                   /\ UNCHANGED <<translated_chunks, log>>
              ELSE /\ pc' = "progress"
                   /\ translated_chunks' = Append(translated_chunks, r.val)
                   /\ log' = Append(log, Event("resolve", i,
                                               [failed |-> outcome.raised,
                                                raw |-> outcome.val, text |-> r.val]))
    /\ UNCHANGED <<translated_text, original_text, chunk_size, chunk_overlap, chunks,
                   i, progress_bar, realtime_display, notice, completed, cancel_mark,
                   had_result, runs>>

UpdateProgressOffByOne ==
    /\ pc = "progress"
    /\ pc' = "sleep"
    /\ progress_bar' = <<i, TotalChunks>>
    /\ realtime_display' = AssembleText(translated_chunks)
    /\ log' = Append(log, Event("progress", i, TotalChunks))
    /\ UNCHANGED <<translated_text, original_text, chunk_size, chunk_overlap, chunks,
                   translated_chunks, i, notice, completed, cancel_mark, had_result, runs>>
\* progress_bar.progress((i + 1) / total_chunks, ...); realtime_display.text_area(...)
UpdateProgress ==
    /\ pc = "progress"
    /\ pc' = "sleep"
    /\ progress_bar' = <<i + 1, TotalChunks>>
    /\ realtime_display' = AssembleText(translated_chunks)
    /\ log' = Append(log, Event("progress", i + 1, TotalChunks))
    /\ UNCHANGED <<translated_text, original_text, chunk_size, chunk_overlap, chunks,
                   translated_chunks, i, notice, completed, cancel_mark, had_result, runs>>

PaceRetriesFailed ==
    /\ pc = "sleep"
    /\ pc' = "loop"
    /\ i' = IF Resolves[Len(Resolves)].val.failed THEN i ELSE i + 1
    /\ log' = Append(log, Event("sleep", i, None))
    /\ UNCHANGED <<translated_text, original_text, chunk_size, chunk_overlap, chunks,
                   translated_chunks, progress_bar, realtime_display, notice, completed,
                   cancel_mark, had_result, runs>>
PaceOnlyAfterSuccess ==
    /\ pc = "sleep"
    /\ pc' = "loop"
    /\ i' = i + 1
    /\ log' = IF Resolves[Len(Resolves)].val.failed THEN log
              ELSE Append(log, Event("sleep", i, None))
    /\ UNCHANGED <<translated_text, original_text, chunk_size, chunk_overlap, chunks,
                   translated_chunks, progress_bar, realtime_display, notice, completed,
                   cancel_mark, had_result, runs>>
\* time.sleep(1), then the next iteration
Pace ==
    /\ pc = "sleep"
    /\ pc' = "loop"
    /\ i' = i + 1
    /\ log' = Append(log, Event("sleep", i, None))
    /\ UNCHANGED <<translated_text, original_text, chunk_size, chunk_overlap, chunks,
                   translated_chunks, progress_bar, realtime_display, notice, completed,
                   cancel_mark, had_result, runs>>

\* after the loop: the result is stored, the bar removed, completion reported
FinishRun ==
    /\ pc = "loop"
    /\ i = TotalChunks
    /\ pc' = "idle"
    /\ translated_text' = AssembleText(translated_chunks)
    /\ progress_bar' = <<>>
    /\ completed' = TRUE
    /\ cancel_mark' = NoCancel
    /\ UNCHANGED <<original_text, chunk_size, chunk_overlap, chunks, translated_chunks,
                   i, realtime_display, notice, log, had_result, runs>>

\* The caller signals cancellation while the run is in progress.  The loop has
\* no statement that reads the signal.
Cancel ==
    /\ pc \in {"loop", "inflight", "progress", "sleep"}
    /\ cancel_mark = NoCancel
    /\ cancel_mark' = [calls |-> Len(Calls), resolved |-> Len(Resolves)]
    /\ UNCHANGED <<pc, translated_text, original_text, chunk_size, chunk_overlap, chunks,
                   translated_chunks, i, progress_bar, realtime_display, notice,
                   completed, log, had_result, runs>>

Next ==
    \/ Click
    \/ ExtractAndSplit
    \/ TranslateCall
    \/ TranslateReturn
    \/ UpdateProgress
    \/ Pace
    \/ FinishRun
    \/ Cancel

Spec == Init /\ [][Next]_vars

\* ------------------------------------------------- the splitter on its own
InitSplit ==
    /\ pc = "split"
    /\ translated_text = <<>>
    /\ original_text \in TextsOver(Chars, MaxSplitLen) \ {<<>>}
    /\ chunk_size \in ChunkSizes
    /\ chunk_overlap \in Overlaps
    /\ chunks = <<>>
    /\ translated_chunks = <<>>
    /\ i = 0
    /\ progress_bar = <<>>
    /\ realtime_display = None
    /\ notice = FALSE
    /\ completed = FALSE
    /\ log = <<>>
    /\ cancel_mark = NoCancel
    /\ had_result = FALSE
    /\ runs = 0

\* chunks = text_splitter.split_text(original_text)
SplitOnly ==
    /\ pc = "split"
    /\ pc' = "chunked"
    /\ chunks' = ChunkTexts(SplitPieces(original_text, chunk_size, chunk_overlap))
    /\ UNCHANGED <<translated_text, original_text, chunk_size, chunk_overlap,
                   translated_chunks, i, progress_bar, realtime_display, notice,
                   completed, log, cancel_mark, had_result, runs>>

NextSplit == SplitOnly

SpecSplit == InitSplit /\ [][NextSplit]_vars

\* ------------------------------------------------------------- properties
InRun == pc \in {"loop", "inflight", "progress", "sleep"}
LoopDone == pc = "loop" /\ i = TotalChunks
OutcomeTexts(n) == [k \in 1..n |-> Resolves[k].val.text]
SomeFailed == \E k \in 1..Len(Resolves) : Resolves[k].val.failed
SomeSucceeded == \E k \in 1..Len(Resolves) : ~Resolves[k].val.failed

\* C1: in a run that is not cancelled the translator is called for chunk 0, then
\* for each next index, once per chunk (no retry, skip or duplicate), and the
\* outcome of chunk i is stored at position i of the result sequence.
C1_CallsFollowChunkOrder ==
    cancel_mark = NoCancel =>
        /\ Len(Calls) <= TotalChunks
        /\ Calls = [k \in 1..Len(Calls) |-> Event("call", k - 1, chunks[k])]
        /\ Len(translated_chunks) = Len(Resolves)
        /\ \A k \in 1..Len(Resolves) :
              /\ Resolves[k].idx = k - 1
              /\ translated_chunks[k] = Resolves[k].val.text
        /\ (LoopDone \/ completed) =>
              Len(Calls) = TotalChunks /\ Len(translated_chunks) = TotalChunks

C1_Witness ==
    LoopDone /\ TotalChunks >= 3 /\ cancel_mark = NoCancel /\ SomeFailed

\* C2: a run over N chunks emits N progress events, one after each resolved
\* chunk, with completedCount 1, 2, ..., N in that order and totalCount N.
C2_ProgressEventsCountUp ==
    /\ ProgressEvents = [k \in 1..Len(ProgressEvents) |-> Event("progress", k, TotalChunks)]
    /\ Len(ProgressEvents) = IF pc = "progress" THEN Len(Resolves) - 1 ELSE Len(Resolves)
    /\ pc = "sleep" => progress_bar = <<Len(Resolves), TotalChunks>>
    /\ (LoopDone \/ completed) => Len(ProgressEvents) = TotalChunks

C2_Witness ==
    completed /\ TotalChunks >= 3 /\ SomeFailed /\ SomeSucceeded
    /\ ProgressEvents[TotalChunks].idx = ProgressEvents[TotalChunks].val

\* C3: a failure of the remote call on chunk k is returned as a value and never
\* leaves translate_text: the later chunks are still attempted and the run
\* completes, whatever subset of the chunks fails.
C3_FailureDoesNotStopRun ==
    /\ pc # "error"
    /\ \A k \in 1..Len(Resolves) :
          Resolves[k].val.failed => translated_chunks[k] = ErrorPrefix \o Resolves[k].val.raw
    /\ (pc = "loop" /\ i < TotalChunks) => Len(Calls) = i /\ ENABLED TranslateCall
    /\ pc = "inflight" => ENABLED TranslateReturn
    /\ LoopDone => Len(Calls) = TotalChunks /\ ENABLED FinishRun
    /\ completed => Len(Resolves) = TotalChunks

C3_Witness ==
    /\ completed
    /\ TotalChunks >= 2
    /\ \A k \in 1..Len(Resolves) : Resolves[k].val.failed

\* C4: a run whose overlap is not smaller than its chunk size is rejected before
\* any chunk is processed: no translator call is made in such a run.
C4_OverlapNotBelowSizeMakesNoCall ==
    chunk_overlap >= chunk_size => Len(Calls) = 0

\* C5: after the caller has signalled cancellation no new translator call is
\* issued, and the results resolved before the signal stay in the run's result
\* sequence in their order.
C5_CancelStopsNewCalls ==
    cancel_mark # NoCancel =>
        /\ Len(Calls) = cancel_mark.calls
        /\ Len(translated_chunks) >= cancel_mark.resolved
        /\ \A k \in 1..cancel_mark.resolved : translated_chunks[k] = Resolves[k].val.text

\* C6: between the resolution of chunk i and the call for chunk i+1 there is
\* exactly one pacing delay, so two calls are never back to back, and the delay
\* follows failed chunks as well as translated ones.
C6_OneDelayAfterEachChunk ==
    /\ \A q \in 1..Len(log) :
          (IsCall(log[q]) /\ log[q].idx > 0) =>
              \E r \in 1..(q - 1) :
                  /\ IsResolve(log[r])
                  /\ log[r].idx = log[q].idx - 1
                  /\ Cardinality({d \in (r + 1)..(q - 1) : IsSleep(log[d])}) = 1
    /\ \A q \in 1..(Len(log) - 1) : IsCall(log[q]) => ~IsCall(log[q + 1])
    /\ Len(Sleeps) = IF pc \in {"progress", "sleep"} THEN Len(Resolves) - 1 ELSE Len(Resolves)
    /\ \A k \in 1..Len(Sleeps) : Sleeps[k].idx = k - 1

C6_Witness ==
    LoopDone /\ TotalChunks >= 2 /\ Resolves[1].val.failed /\ SomeSucceeded
    /\ Len(Sleeps) = TotalChunks

\* The state after a click whose extraction gave no text: only such a click
\* leaves an empty or absent original text behind.
ClickedWithoutText == runs >= 1 /\ pc # "extract" /\ original_text \in {<<>>, None}

\* C7: with an empty or absent text no run is performed (no chunks, no calls,
\* no progress events, empty final text, no error), an empty text is reported
\* as a completed run and an absent text surfaces a notice.
C7_EmptyTextReportedCompleted ==
    ClickedWithoutText =>
        /\ pc = "idle"
        /\ chunks = <<>>
        /\ log = <<>>
        /\ translated_text = <<>>
        /\ original_text = <<>> => completed
        /\ original_text = None => notice

\* ---- the chunks of the text of the state, with their places in the text
Pieces == SplitPieces(original_text, chunk_size, chunk_overlap)
PieceEnd(p) == p.at + Len(p.txt)

RECURSIVE Rebuild(_, _, _)
\* the chunks from the k-th on, joined with what repeats text before pos removed
Rebuild(ps, k, pos) ==
    IF k > Len(ps) THEN <<>>
    ELSE LET p == ps[k]
             skip == IF p.at < pos THEN pos - p.at ELSE 0
             rest == IF skip >= Len(p.txt) THEN <<>> ELSE SubSeq(p.txt, skip + 1, Len(p.txt))
         IN  rest \o Rebuild(ps, k + 1, IF PieceEnd(p) > pos THEN PieceEnd(p) ELSE pos)

InDocumentOrder ==
    \A k \in 1..(Len(Pieces) - 1) :
        /\ Pieces[k].at <= Pieces[k + 1].at
        /\ PieceEnd(Pieces[k]) <= PieceEnd(Pieces[k + 1])

\* C8: for 0 <= overlap < size the chunks are in document order and joined
\* with the overlaps removed they give the text back exactly, no character
\* (whitespace at chunk boundaries included) being dropped.
C8_ChunksRebuildText ==
    (pc = "chunked" /\ chunk_overlap < chunk_size) =>
        /\ chunks = ChunkTexts(Pieces)
        /\ InDocumentOrder
        /\ Rebuild(Pieces, 1, 0) = original_text

\* C9: when a run completes the final text is the outcomes of all chunks joined
\* in index order with nothing added, a failed chunk giving its failure
\* description in place of a translation; after chunk i is shown, the realtime
\* display is the join of the outcomes 0..i.
C9_FinalTextIsJoinOfOutcomes ==
    /\ \A k \in 1..Len(Resolves) :
          Resolves[k].val.text = IF Resolves[k].val.failed
                                 THEN ErrorPrefix \o Resolves[k].val.raw
                                 ELSE Resolves[k].val.raw
    /\ completed =>
          /\ Len(Resolves) = TotalChunks
          /\ translated_text = Join(OutcomeTexts(TotalChunks))
    /\ pc = "sleep" => realtime_display = Join(OutcomeTexts(i + 1))
    /\ (pc = "loop" /\ i > 0) => realtime_display = Join(OutcomeTexts(i))

C9_Witness ==
    /\ completed
    /\ TotalChunks >= 3
    /\ ~Resolves[1].val.failed
    /\ Resolves[2].val.failed
    /\ translated_text # <<>>

\* C10: the stored translated text is emptied when a run starts and written
\* once, after the last chunk has resolved: while a run is in progress it is
\* empty, and it never holds a partial or an earlier run's result.
C10_StoredTextEmptyDuringRun ==
    /\ (pc = "extract" \/ InRun) => translated_text = <<>>
    /\ translated_text # <<>> =>
          /\ completed
          /\ Len(Resolves) = TotalChunks
          /\ translated_text = Join(OutcomeTexts(TotalChunks))

C10_Witness ==
    had_result /\ pc = "progress" /\ Len(translated_chunks) >= 2
====
